---- MODULE Spec2Model ----
(***************************************************************************)
(* Model of the three screens of the demo application:                     *)
(*   "search"  : routes/search/+page.svelte     (searchQuery)              *)
(*   "home"    : routes/+page.svelte            (followingQuery + table)   *)
(*   "profile" : routes/p/[handle]/+page.svelte (authorFeedQuery + table)  *)
(* The screens are wired to three libraries whose documented behaviour is  *)
(* driven by the options the source passes: runed's Debounced, TanStack    *)
(* Query's infinite queries and TanStack Table's row models.               *)
(* Strings that are searched or compared are sequences of character codes. *)
(***************************************************************************)
EXTENDS Integers, Sequences, FiniteSets

VARIABLES
    screen,          \* which route is mounted
    server,          \* the upstream data: actor/term -> sequence of pages of rows
    input,           \* searchTerm / handleInput: the raw bound input value
    debounced,       \* debouncedSearchTerm.current / debouncedHandle.current
    timer,           \* the pending setTimeout of the Debounced, if any
    burst,           \* history: ms since the last edit of the raw input (capped),
                     \* number of edits of the latest burst (capped), and whether
                     \* its emission switched to a key with fresh cached data
    cache,           \* the QueryClient's cache: query key parameter -> query state
    fresh,           \* keys whose data is younger than staleTime, oldest first
    orphans,         \* network calls in flight whose result the library ignores
    profileQ,        \* profile screen: status of profileQuery
    sorting,         \* SortingState ($state)
    tableSearchTerm, \* the table search input ($state)
    globalFilter     \* the globalFilter state held inside the current table

qvars == <<screen, server, input, debounced, timer, burst, cache, fresh, orphans, profileQ>>
tvars == <<sorting, tableSearchTerm, globalFilter>>
vars == <<screen, server, input, debounced, timer, burst, cache, fresh, orphans,
          profileQ, sorting, tableSearchTerm, globalFilter>>

(***************************************************************************)
(* Program constants and bounds                                            *)
(***************************************************************************)
DebounceDelay == 500
TickStep == 250
MaxPages == 2
MaxOrphans == 1
MaxBurst == 2
RetryLimit == 0

Terms == {"", "a", "b"}
\* what the user types: the home screen starts from handle "a"
Inputs == IF screen = "search" THEN Terms ELSE {"a", "b"}
Absent == 0 - 1
InitialPageParam == 0

Max(a, b) == IF a > b THEN a ELSE b
Min(a, b) == IF a < b THEN a ELSE b
Last(s) == s[Len(s)]
Range(s) == {s[i] : i \in 1..Len(s)}

RECURSIVE Flat(_)
Flat(ss) == IF ss = <<>> THEN <<>> ELSE Head(ss) \o Flat(Tail(ss))

(***************************************************************************)
(* Cell values: undefined, a string (character codes) or a number          *)
(***************************************************************************)
Undef == [t |-> "undef", s |-> <<>>, n |-> 0]
Str(s) == [t |-> "str", s |-> s, n |-> 0]
Num(n) == [t |-> "num", s |-> <<>>, n |-> n]

ProfileView(h, d, c) == [handle |-> h, displayName |-> d, createdAt |-> c]
FeedViewPost(l, x, rs, rp) == [likeCount |-> l, text |-> x, reason |-> rs, reply |-> rp]

(***************************************************************************)
(* The upstream API.  A cursor i > 0 is the opaque token returned with     *)
(* page i; a request without cursor, or with the initial page param, is    *)
(* answered with the first page; the last page carries no cursor.          *)
(***************************************************************************)
NumPages(q) == Len(server[q])

ServerPage(q, cursorArg) ==
    LET idx == IF cursorArg \in {Absent, InitialPageParam} THEN 1 ELSE cursorArg + 1
    IN  [q |-> q, cursorArg |-> cursorArg,
         idx |-> IF idx <= NumPages(q) THEN idx ELSE 0,
         cursor |-> IF idx < NumPages(q) THEN idx ELSE Absent]

PageItems(p) == IF p.idx = 0 THEN <<>> ELSE server[p.q][p.idx]

(***************************************************************************)
(* Query state                                                             *)
(***************************************************************************)
IdleFetch == [kind |-> "idle", forward |-> FALSE, acc |-> <<>>, q |-> "", cursor |-> Absent,
              failures |-> 0]
NoEntry == [status |-> "none", pages |-> <<>>, fetch |-> IdleFetch]

HasData(e) == e.pages # <<>>
IsFetching(e) == e.fetch.kind # "idle"
IsFetchingNextPage(e) == IsFetching(e) /\ e.fetch.forward
IsError(e) == e.status = "error"
IsSuccess(e) == e.status = "success"

\* getNextPageParam: (lastPage) => lastPage.cursor
GetNextPageParam(pages) == IF pages = <<>> THEN Absent ELSE Last(pages).cursor
HasNextPage(e) == GetNextPageParam(e.pages) # Absent

\* the cursor the queryFn hands to the API for a given pageParam
CursorArg(pageParam) == IF screen = "search" THEN Absent ELSE pageParam

\* the actor / q argument the queryFn hands to the API when it is called for
\* key k while the debounced value reads d: the profile screen passes the
\* handle of the route, the other two read the Debounced at call time
QueryArg(k, d) == IF screen = "profile" THEN k ELSE d

\* a mutant: no staleTime, data is stale at once
MutAlwaysStale(k) == TRUE

\* staleTime: 30000 -- data is stale once it has left the fresh window
IsStale(k) == ~HasData(cache[k]) \/ k \notin Range(fresh)

\* the state a query takes when a fetch starts ('fetch' action of the reducer)
StartFetch(e, kind, forward, q, cursor) ==
    [e EXCEPT !.status = IF HasData(e) THEN e.status ELSE "pending",
              !.fetch = [kind |-> kind, forward |-> forward, acc |-> <<>>,
                         q |-> q, cursor |-> cursor, failures |-> 0]]

\* subscribing an observer to key k while the debounced value reads d: data
\* that is missing or stale is (re)fetched from the first page on
Observe(c, k, d) ==
    IF IsFetching(c[k]) \/ ~IsStale(k) THEN c
    ELSE [c EXCEPT ![k] = StartFetch(c[k], "all", FALSE, QueryArg(k, d),
                                     CursorArg(InitialPageParam))]

\* a mutant: the pages are flattened newest first
MutSelectNewestFirst(pages) ==
    LET n == Len(pages)
        flat == Flat([i \in 1..n |-> PageItems(pages[n + 1 - i])])
    IN  IF screen = "profile"
        THEN SelectSeq(flat, LAMBDA post : ~post.reason /\ ~post.reply)
        ELSE flat

\* select: flatten the pages (the author feed drops reposts and replies)
Select(pages) ==
    LET flat == Flat([i \in 1..Len(pages) |-> PageItems(pages[i])])
    IN  IF screen = "profile"
        THEN SelectSeq(flat, LAMBDA post : ~post.reason /\ ~post.reply)
        ELSE flat

\* data: $query.data || []
Rows == IF HasData(cache[debounced]) THEN Select(cache[debounced].pages) ELSE <<>>

(***************************************************************************)
(* Table: global filter, sorting and the displayed rows                    *)
(***************************************************************************)
Columns == IF screen = "profile" THEN {"likeCount", "text"}
           ELSE {"handle", "displayName", "createdAt"}
SortableColumns == IF screen = "profile" THEN {"likeCount"} ELSE {"handle", "createdAt"}

Undefined == [defined |-> FALSE, v |-> <<>>]
Def(t) == [defined |-> TRUE, v |-> t]

Lower(c) == IF c >= 65 /\ c <= 90 THEN c + 32 ELSE c
LowerS(s) == [i \in 1..Len(s) |-> Lower(s[i])]

RECURSIVE Digits(_)
Digits(n) == IF n < 10 THEN <<48 + n>> ELSE Digits(n \div 10) \o <<48 + (n % 10)>>

ToString(val) == IF val.t = "num" THEN Digits(val.n) ELSE val.s

Contains(s, f) == \E i \in 0..(Len(s) - Len(f)) : SubSeq(s, i + 1, i + Len(f)) = f

\* a mutant: the case-sensitive variant of the filter function
MutIncludesStringSensitive(val, f) ==
    val.t # "undef" /\ Contains(ToString(val), f)

\* filterFns.includesString
IncludesString(val, f) ==
    val.t # "undef" /\ Contains(LowerS(ToString(val)), LowerS(f))

\* getColumnCanGlobalFilter: decided by the value of the first core row
CanGlobalFilter(col, rows) == rows # <<>> /\ rows[1][col].t \in {"str", "num"}

\* getFilteredRowModel
FilteredRowModel(rows, gf) ==
    LET filterable == {col \in Columns : CanGlobalFilter(col, rows)}
    IN  IF ~gf.defined \/ gf.v = <<>> \/ rows = <<>> \/ filterable = {} THEN rows
        ELSE SelectSeq(rows, LAMBDA row : \E col \in filterable : IncludesString(row[col], gf.v))

RECURSIVE LexCmp(_, _)
LexCmp(a, b) ==
    IF a = <<>> /\ b = <<>> THEN 0
    ELSE IF a = <<>> THEN 0 - 1
    ELSE IF b = <<>> THEN 1
    ELSE IF Head(a) < Head(b) THEN 0 - 1
    ELSE IF Head(a) > Head(b) THEN 1
    ELSE LexCmp(Tail(a), Tail(b))

\* the sortingFn of a column applied to two defined values: "datetime"
\* compares the raw values, "alphanumeric" (Likes, and the one chosen
\* automatically for Handle) compares numbers by value and strings lowercased
SortingFn(col, a, b) ==
    IF a.t = "num" /\ b.t = "num" THEN (IF a.n < b.n THEN 0 - 1 ELSE IF a.n > b.n THEN 1 ELSE 0)
    ELSE IF col = "createdAt" THEN LexCmp(ToString(a), ToString(b))
    ELSE LexCmp(LowerS(ToString(a)), LowerS(ToString(b)))

\* one sort entry applied to two rows (sortUndefined: 1 is the column default)
CmpEntry(ra, rb, entry) ==
    LET a == ra[entry.id]
        b == rb[entry.id]
        u == IF a.t = "undef" /\ b.t = "undef" THEN 0
             ELSE IF a.t = "undef" THEN 1
             ELSE IF b.t = "undef" THEN 0 - 1
             ELSE SortingFn(entry.id, a, b)
    IN  IF entry.desc THEN 0 - u ELSE u

RECURSIVE CmpRows(_, _, _)
CmpRows(ra, rb, srt) ==
    IF srt = <<>> THEN 0
    ELSE LET c == CmpEntry(ra, rb, Head(srt))
         IN  IF c # 0 THEN c ELSE CmpRows(ra, rb, Tail(srt))

\* getSortedRowModel: ties keep the original order of the rows
SortedRowModel(rows, srt) ==
    LET n == Len(rows)
        avail == SelectSeq(srt, LAMBDA e : e.id \in SortableColumns)
        Before(i, j) == LET c == CmpRows(rows[i], rows[j], avail)
                        IN  c < 0 \/ (c = 0 /\ i < j)
        Pos(i) == 1 + Cardinality({j \in 1..n : j # i /\ Before(j, i)})
    IN  IF avail = <<>> \/ n = 0 THEN rows
        ELSE [p \in 1..n |-> rows[CHOOSE i \in 1..n : Pos(i) = p]]

\* $table.getRowModel().rows
Displayed == SortedRowModel(FilteredRowModel(Rows, globalFilter), sorting)

\* column.getIsSorted()
GetIsSorted(col, srt) ==
    IF \E i \in 1..Len(srt) : srt[i].id = col
    THEN LET i == CHOOSE i \in 1..Len(srt) : srt[i].id = col
         IN  IF srt[i].desc THEN "desc" ELSE "asc"
    ELSE "false"

\* a mutant: sortDescFirst switched off
MutFirstSortDirAsc(col) == "asc"

\* column.getFirstSortDir(): getAutoSortDir() looks at the first filtered row
GetFirstSortDir(col) ==
    LET frows == FilteredRowModel(Rows, globalFilter)
    IN  IF frows # <<>> /\ frows[1][col].t = "str" THEN "asc" ELSE "desc"

\* column.getNextSortingOrder()
GetNextSortingOrder(col, srt) ==
    LET first == GetFirstSortDir(col)
        isSorted == GetIsSorted(col, srt)
    IN  IF isSorted = "false" THEN first
        ELSE IF isSorted # first THEN "false"
        ELSE IF isSorted = "desc" THEN "asc" ELSE "desc"

\* column.toggleSorting(undefined, multi) as the updater handed to setSorting
ToggleUpdater(col, multi, old) ==
    LET next == GetNextSortingOrder(col, old)
        existing == \E i \in 1..Len(old) : old[i].id = col
        nextDesc == (next = "desc")
        act0 == IF old # <<>> /\ multi
                THEN (IF existing THEN "toggle" ELSE "add")
                ELSE IF old # <<>> /\ Last(old).id # col THEN "replace"
                ELSE IF existing THEN "toggle"
                ELSE "replace"
        act == IF act0 = "toggle" /\ next = "false" THEN "remove" ELSE act0
    IN  CASE act = "add" -> Append(old, [id |-> col, desc |-> nextDesc])
          [] act = "toggle" -> [i \in 1..Len(old) |->
                                   IF old[i].id = col THEN [id |-> col, desc |-> nextDesc]
                                   ELSE old[i]]
          [] act = "remove" -> SelectSeq(old, LAMBDA e : e.id # col)
          [] OTHER -> <<[id |-> col, desc |-> nextDesc]>>

TableRendered == screen = "home" \/ (screen = "profile" /\ profileQ = "success")

\* options and table are $derived: a new table, with a fresh internal state,
\* is created whenever the query result read by options changes
TableFollows ==
    /\ UNCHANGED <<sorting, tableSearchTerm>>
    /\ globalFilter' =
         IF screen # "search" /\
            (debounced' # debounced \/ Rows' # Rows \/
             IsFetchingNextPage(cache'[debounced']) # IsFetchingNextPage(cache[debounced]))
         THEN Undefined ELSE globalFilter

\* bind:value={tableSearchTerm} and the $effect calling setGlobalFilter
TypeTableSearch(t) ==
    /\ TableRendered
    /\ t # tableSearchTerm
    /\ tableSearchTerm' = t
    /\ globalFilter' = Def(t)
    /\ UNCHANGED <<sorting>>
    /\ UNCHANGED qvars

\* header button onclick -> setSorting(updater); options, then table, recompute
ToggleSorting(col, multi) ==
    /\ TableRendered
    /\ col \in SortableColumns
    /\ sorting' = ToggleUpdater(col, multi, sorting)
    /\ globalFilter' = Undefined
    /\ UNCHANGED <<tableSearchTerm>>
    /\ UNCHANGED qvars

(***************************************************************************)
(* Debounced key source: new Debounced(() => input, 500)                   *)
(***************************************************************************)
Edit(v) ==
    /\ v # input
    /\ input' = v
    /\ timer' = [active |-> TRUE, left |-> DebounceDelay]
    /\ burst' = [since |-> 0,
                 edits |-> IF timer.active THEN Min(MaxBurst, burst.edits + 1) ELSE 1,
                 hit |-> FALSE]
    /\ UNCHANGED <<screen, server, debounced, cache, fresh, orphans, profileQ>>
    /\ UNCHANGED tvars

Tick ==
    /\ timer.active /\ timer.left > 0
    /\ timer' = [timer EXCEPT !.left = Max(0, timer.left - TickStep)]
    /\ burst' = [burst EXCEPT !.since = Min(DebounceDelay, burst.since + TickStep)]
    /\ UNCHANGED <<screen, server, input, debounced, cache, fresh, orphans, profileQ>>
    /\ UNCHANGED tvars

\* a mutant: the callback runs without waiting for the delay
MutTimerDueAtOnce == timer.active

TimerDue == timer.active /\ timer.left = 0

\* the timeout callback sets current = getter(); a changed value re-derives
\* the query, whose new observer is subscribed at once
Fire ==
    /\ TimerDue
    /\ timer' = [active |-> FALSE, left |-> 0]
    /\ debounced' = input
    /\ cache' = IF input # debounced THEN Observe(cache, input, input) ELSE cache
    /\ burst' = [burst EXCEPT !.hit = (input # debounced /\ ~IsStale(input))]
    /\ UNCHANGED <<screen, server, input, fresh, orphans, profileQ>>
    /\ TableFollows

(***************************************************************************)
(* Paged query executor                                                    *)
(***************************************************************************)
Refreshed(k) == SelectSeq(fresh, LAMBDA x : x # k) \o <<k>>

Succeeded(e, pages) == [status |-> "success", pages |-> pages, fetch |-> IdleFetch]

\* a mutant: a failure throws the pages away
MutFailedDropsPages(e) == [e EXCEPT !.status = "error", !.fetch = IdleFetch, !.pages = <<>>]

\* a failed fetch: the reducer's 'error' action keeps the data
Failed(e) == [e EXCEPT !.status = "error", !.fetch = IdleFetch]

\* the API answers the outstanding call of key k
ResponseOK(k) ==
    LET e == cache[k]
        f == e.fetch
        page == ServerPage(f.q, f.cursor)
        acc == Append(f.acc, page)
        total == Max(Len(e.pages), 1)
    IN  /\ IsFetching(e)
        /\ IF f.kind = "next"
           THEN /\ cache' = [cache EXCEPT ![k] = Succeeded(e, Append(e.pages, page))]
                /\ fresh' = Refreshed(k)
           ELSE IF Len(acc) < total /\ page.cursor # Absent
           THEN /\ cache' = [cache EXCEPT ![k].fetch =
                                [f EXCEPT !.acc = acc, !.q = QueryArg(k, debounced),
                                          !.cursor = CursorArg(page.cursor)]]
                /\ fresh' = fresh
           ELSE /\ cache' = [cache EXCEPT ![k] = Succeeded(e, acc)]
                /\ fresh' = Refreshed(k)
        /\ UNCHANGED <<screen, server, input, debounced, timer, burst, orphans, profileQ>>
        /\ TableFollows

\* the outstanding call of key k fails
ResponseFail(k) ==
    LET e == cache[k]
        f == e.fetch
    IN  /\ IsFetching(e)
        /\ cache' = IF f.failures < RetryLimit
                    THEN [cache EXCEPT ![k].fetch =
                             [f EXCEPT !.failures = f.failures + 1,
                                       !.q = QueryArg(k, debounced)]]
                    ELSE [cache EXCEPT ![k] = Failed(e)]
        /\ UNCHANGED <<screen, server, input, debounced, timer, burst, fresh, orphans,
                       profileQ>>
        /\ TableFollows

\* whether the "load next page" control of the screen can be activated
ButtonEnabled ==
    LET e == cache[debounced]
    IN  CASE screen = "search" ->
                 /\ input # ""
                 /\ ~IsFetching(e) /\ ~IsError(e) /\ IsSuccess(e)
                 /\ HasNextPage(e)
                 /\ ~IsFetchingNextPage(e)
          [] screen = "home" -> ~IsFetchingNextPage(e)
          [] OTHER -> profileQ = "success" /\ ~IsFetchingNextPage(e)

\* onclick={() => $query.fetchNextPage()}.  With a fetch in flight and no data
\* yet the library hands back the pending promise and nothing changes; with
\* data, it drops the fetch in flight (its call stays on the wire) and starts
\* the next-page fetch.
FetchNextPage ==
    LET k == debounced
        e == cache[k]
        param == GetNextPageParam(e.pages)
    IN  /\ ButtonEnabled
        /\ ~(IsFetching(e) /\ ~HasData(e))
        /\ IF IsFetching(e)
           THEN /\ Cardinality(orphans) < MaxOrphans
                /\ orphans' = orphans \cup {[k |-> k, q |-> e.fetch.q, cursor |-> e.fetch.cursor]}
           ELSE orphans' = orphans
        /\ IF HasData(e) /\ param = Absent
           THEN /\ cache' = [cache EXCEPT ![k] = Succeeded(e, e.pages)]
                /\ fresh' = Refreshed(k)
           ELSE IF HasData(e)
           THEN /\ Len(e.pages) < MaxPages
                /\ cache' = [cache EXCEPT ![k] =
                                StartFetch(e, "next", TRUE, QueryArg(k, debounced),
                                           CursorArg(param))]
                /\ fresh' = fresh
           ELSE /\ cache' = [cache EXCEPT ![k] =
                                StartFetch(e, "all", TRUE, QueryArg(k, debounced),
                                           CursorArg(InitialPageParam))]
                /\ fresh' = fresh
        /\ UNCHANGED <<screen, server, input, debounced, timer, burst, profileQ>>
        /\ TableFollows

\* a dropped call completes; its result is ignored
OrphanDone(o) ==
    /\ o \in orphans
    /\ orphans' = orphans \ {o}
    /\ UNCHANGED <<screen, server, input, debounced, timer, burst, cache, fresh, profileQ>>
    /\ UNCHANGED tvars

\* staleTime elapses for the oldest fresh data while the input is at rest
BecomeStale ==
    /\ ~timer.active
    /\ fresh # <<>>
    /\ fresh' = Tail(fresh)
    /\ UNCHANGED <<screen, server, input, debounced, timer, burst, cache, orphans, profileQ>>
    /\ UNCHANGED tvars

\* profile screen: profileQuery settles
ProfileOK ==
    /\ profileQ = "pending"
    /\ profileQ' = "success"
    /\ UNCHANGED <<screen, server, input, debounced, timer, burst, cache, fresh, orphans>>
    /\ UNCHANGED tvars

ProfileFail ==
    /\ profileQ = "pending"
    /\ profileQ' = "error"
    /\ UNCHANGED <<screen, server, input, debounced, timer, burst, cache, fresh, orphans>>
    /\ UNCHANGED tvars

(***************************************************************************)
(* Initial states                                                          *)
(***************************************************************************)
\* character codes: "a" 97, "b" 98, "A" 65, "B" 66, "1" 49, "2" 50, "5" 53
Followers ==
    [q \in Terms |->
        CASE q = "a" -> << <<ProfileView(Str(<<97, 98>>), Str(<<65>>), Str(<<50>>)),
                             ProfileView(Str(<<98>>), Undef, Str(<<49>>))>>,
                           <<ProfileView(Str(<<97>>), Str(<<66>>), Undef)>> >>
          [] q = "b" -> << <<ProfileView(Str(<<98, 97>>), Undef, Undef)>> >>
          [] OTHER -> << <<>> >>]

TableTerms == IF screen = "profile" THEN {<<>>, <<97>>, <<66>>, <<53>>}
              ELSE {<<>>, <<97>>}

Posts == {FeedViewPost(Num(5), Str(<<97>>), FALSE, FALSE),
          FeedViewPost(Num(12), Str(<<65, 98>>), FALSE, FALSE),
          FeedViewPost(Undef, Str(<<98>>), FALSE, FALSE),
          FeedViewPost(Num(7), Str(<<97>>), TRUE, FALSE),
          FeedViewPost(Num(5), Str(<<66>>), FALSE, TRUE)}

InitScreen(scr, inputs) ==
    /\ screen = scr
    /\ input \in inputs
    /\ debounced = input
    /\ burst = [since |-> DebounceDelay, edits |-> 0, hit |-> FALSE]
    /\ fresh = <<>>
    /\ orphans = {}
    /\ cache = [t \in Terms |->
                   IF t = input
                   THEN StartFetch(NoEntry, "all", FALSE, input,
                                   IF scr = "search" THEN Absent ELSE InitialPageParam)
                   ELSE NoEntry]
    /\ profileQ = "pending"
    /\ sorting = <<>>
    /\ tableSearchTerm = <<>>
    /\ globalFilter = Undefined

InitSearch ==
    /\ InitScreen("search", Terms)
    /\ server = Followers
    /\ timer \in {[active |-> FALSE, left |-> 0], [active |-> TRUE, left |-> DebounceDelay]}

InitHome ==
    /\ InitScreen("home", {"a"})
    /\ server = Followers
    /\ timer \in {[active |-> FALSE, left |-> 0], [active |-> TRUE, left |-> DebounceDelay]}

InitProfile ==
    /\ InitScreen("profile", {"a"})
    /\ \E p1, p2, p3 \in Posts :
          server = [q \in Terms |-> IF q = "a" THEN << <<p1, p2>>, <<p3>> >> ELSE << <<>> >>]
    /\ timer = [active |-> FALSE, left |-> 0]

(***************************************************************************)
(* Specifications                                                          *)
(***************************************************************************)
NextSearch ==
    \/ \E v \in Inputs : Edit(v)
    \/ Tick
    \/ Fire
    \/ \E k \in Terms : ResponseOK(k)
    \/ \E k \in Terms : ResponseFail(k)
    \/ FetchNextPage
    \/ BecomeStale

NextHome ==
    \/ \E v \in Inputs : Edit(v)
    \/ Tick
    \/ Fire
    \/ \E k \in Terms : ResponseOK(k)
    \/ \E k \in Terms : ResponseFail(k)
    \/ FetchNextPage
    \/ \E o \in orphans : OrphanDone(o)
    \/ BecomeStale
    \/ \E t \in TableTerms : TypeTableSearch(t)
    \/ \E col \in SortableColumns, multi \in BOOLEAN : ToggleSorting(col, multi)

NextProfile ==
    \/ \E k \in Terms : ResponseOK(k)
    \/ \E k \in Terms : ResponseFail(k)
    \/ FetchNextPage
    \/ ProfileOK
    \/ ProfileFail
    \/ \E t \in TableTerms : TypeTableSearch(t)
    \/ \E col \in SortableColumns, multi \in BOOLEAN : ToggleSorting(col, multi)

SpecSearch == InitSearch /\ [][NextSearch]_vars
SpecHome == InitHome /\ [][NextHome]_vars
SpecProfile == InitProfile /\ [][NextProfile]_vars

(***************************************************************************)
(* Properties                                                              *)
(***************************************************************************)

\* C1: every page after the first was requested with the cursor of the page
\* before it, and a next-page request in flight carries the cursor of the
\* last page held.
C1_NextPageUsesLastCursor ==
    \A k \in Terms :
        LET e == cache[k]
        IN  /\ \A i \in 2..Len(e.pages) : e.pages[i].cursorArg = e.pages[i - 1].cursor
            /\ e.fetch.kind = "next" => e.fetch.cursor = Last(e.pages).cursor

\* a call is put on the wire for key k in this step
CallIssued(k) ==
    /\ IsFetching(cache'[k])
    /\ \/ ~IsFetching(cache[k])
       \/ cache'[k].fetch # cache[k].fetch

\* C3: the debounced value changes only once the raw input has been at rest
\* for the debounce delay, then takes the raw value and disarms the timer; no
\* call is issued with anything but the debounced value; with no timer
\* pending the debounced value is the raw value.
C3_DebouncedTakesFinalValue ==
    /\ [][/\ debounced' # debounced =>
                /\ burst.since >= DebounceDelay
                /\ debounced' = input
                /\ timer.active /\ ~timer'.active
          /\ \A k \in Terms : CallIssued(k) => cache'[k].fetch.q = debounced']_vars
    /\ [](~timer.active => debounced = input)

\* C3 witness: a burst of at least two edits has been emitted as one value
C3_Witness ==
    /\ ~timer.active
    /\ burst.edits >= 2
    /\ debounced = "b"
    /\ cache["b"].status # "none"
    /\ cache["a"].status = "none"

\* C8: switching the key to one whose data is younger than staleTime leaves
\* that query as it was cached: no call is issued for it.
C8_FreshKeyServedFromCache ==
    [][\A k \in Terms :
          (debounced' = k /\ debounced # k /\ HasData(cache[k]) /\ k \in Range(fresh))
              => (cache'[k] = cache[k] /\ ~CallIssued(k))]_vars

\* C8 witness: "a" was fetched, then "b", and the key has just been switched
\* back to "a", which is served from the cache
C8_Witness ==
    /\ burst.hit /\ ~timer.active
    /\ debounced = "a"
    /\ fresh = <<"a", "b">>
    /\ IsSuccess(cache["a"]) /\ ~IsFetching(cache["a"])
    /\ IsSuccess(cache["b"])

Rendering ==
    LET e == cache[debounced]
    IN  IF input = "" THEN "awaiting"
        ELSE IF IsFetching(e) THEN "loading"
        ELSE IF IsError(e) THEN "error"
        ELSE IF IsSuccess(e) THEN "success"
        ELSE "blank"

\* C10: while the committed search key is empty the search screen shows the
\* awaiting-input state, never the state of a query for the empty key.
C10_EmptyKeyAwaitsInput ==
    (screen = "search" /\ debounced = "") => Rendering = "awaiting"

\* network calls on the wire for key k
InFlight(k) ==
    (IF IsFetching(cache[k]) THEN 1 ELSE 0) + Cardinality({o \in orphans : o.k = k})

\* C2: no key ever has more than one call on the wire, and the next-page
\* control cannot be activated while a fetch of the observed key is in flight.
C2_OneFetchInFlight ==
    /\ \A k \in Terms : InFlight(k) <= 1
    /\ IsFetching(cache[debounced]) => ~ButtonEnabled

\* C4: every page held or being assembled under key k, and every call on the
\* wire for key k, was requested with the argument k.
C4_KeyDeterminesArguments ==
    \A k \in Terms :
        LET e == cache[k]
        IN  /\ \A i \in 1..Len(e.pages) : e.pages[i].q = k
            /\ \A i \in 1..Len(e.fetch.acc) : e.fetch.acc[i].q = k
            /\ IsFetching(e) => e.fetch.q = k

\* C5: the rows on display are the rows filtered by the term in the table
\* search input, then sorted by the current sort state.
C5_DisplayedIsFilteredThenSorted ==
    TableRendered =>
        Displayed = SortedRowModel(FilteredRowModel(Rows, Def(tableSearchTerm)), sorting)

Matching(term, sensitive) ==
    SelectSeq(Rows, LAMBDA row :
        \E col \in Columns :
            /\ CanGlobalFilter(col, Rows)
            /\ row[col].t # "undef"
            /\ IF sensitive THEN Contains(ToString(row[col]), term)
               ELSE Contains(LowerS(ToString(row[col])), LowerS(term)))

\* C7 (as stated): a row is retained by the global filter exactly when a
\* filterable column's stringified value contains the term, letter case
\* respected.
C7_RetainedIffCaseSensitiveMatch ==
    (TableRendered /\ globalFilter.defined) =>
        FilteredRowModel(Rows, globalFilter) = Matching(globalFilter.v, TRUE)

\* C7 (amended): a row is retained by the global filter exactly when a
\* filterable column's stringified value contains the term, letter case
\* ignored.
C7_RetainedIffCaseInsensitiveMatch ==
    (TableRendered /\ globalFilter.defined) =>
        FilteredRowModel(Rows, globalFilter) = Matching(globalFilter.v, FALSE)

\* C7 witness: the term "B" retains a row whose text is "b" and drops another
C7_Witness ==
    LET kept == FilteredRowModel(Rows, globalFilter)
    IN  /\ TableRendered
        /\ globalFilter = Def(<<66>>)
        /\ Len(kept) < Len(Rows)
        /\ \E i \in 1..Len(kept) : kept[i].text = Str(<<98>>)

\* number of items held by the first n pages
RECURSIVE ItemCount(_, _)
ItemCount(pages, n) ==
    IF n = 0 THEN 0 ELSE ItemCount(pages, n - 1) + Len(PageItems(pages[n]))

\* the items of the pages in page order, then in-page order, by position
Concatenation(pages) ==
    [p \in 1..ItemCount(pages, Len(pages)) |->
        LET i == CHOOSE i \in 1..Len(pages) :
                     ItemCount(pages, i - 1) < p /\ p <= ItemCount(pages, i)
        IN  PageItems(pages[i])[p - ItemCount(pages, i - 1)]]

\* C11: the list a query's select produces is the concatenation of its pages'
\* items in page order then in-page order (for the author feed, with reposts
\* and replies removed), and a sort toggle or a table-search edit leaves the
\* fetched pages and that list as they were.
C11_SelectIsConcatenation ==
    /\ [](\A k \in Terms :
            Select(cache[k].pages) =
                IF screen = "profile"
                THEN SelectSeq(Concatenation(cache[k].pages),
                               LAMBDA post : ~post.reason /\ ~post.reply)
                ELSE Concatenation(cache[k].pages))
    /\ [][((\E col \in SortableColumns, multi \in BOOLEAN : ToggleSorting(col, multi))
            \/ (\E t \in TableTerms : TypeTableSearch(t)))
              => (cache' = cache /\ Rows' = Rows)]_vars

\* C11 witness: two pages are held, a repost or reply has been dropped, rows
\* of both pages are listed, and the table is sorted and filtered
C11_Witness ==
    /\ screen = "profile"
    /\ Len(cache[debounced].pages) = 2
    /\ Len(Rows) < Len(Concatenation(cache[debounced].pages))
    /\ Len(Rows) >= 2
    /\ Rows[1] # Rows[Len(Rows)]
    /\ Rows[Len(Rows)] \in Range(PageItems(cache[debounced].pages[2]))
    /\ sorting # <<>>
    /\ globalFilter.defined /\ globalFilter.v # <<>>

====
